---- MODULE Spec2Model ----
(***************************************************************************)
(* bosonnlp.py: the asynchronous task workflow of the BosonNLP client.     *)
(*                                                                         *)
(* The model follows src/bosonnlp/client.py: the one-shot wrappers         *)
(* BosonNLP.cluster / BosonNLP.comments, the task facades ClusterTask /    *)
(* CommentsTask (push, analysis, wait_until_complete, result, clear) and   *)
(* the endpoint helpers _cluster_* / _comments_* they are bound to.        *)
(*                                                                         *)
(* The remote service is the environment: every request gets a response    *)
(* (an HTTP status code and a body) chosen nondeterministically.           *)
(*                                                                         *)
(* Time is counted in ticks, TicksPerSecond ticks to the second, so that   *)
(* timeouts below one second (tests.py:109 uses 0.1) are integers.         *)
(***************************************************************************)
EXTENDS Integers, Sequences, FiniteSets, TLC

\* ------------------------------------------------------------------ bounds
\* Longest input sequence handed to a facade or a wrapper.
MaxLen == 201
\* Most status polls one wait_until_complete call is followed for: MaxPolls in
\* the runs that explore the wait in depth, ShortPolls in the runs that explore
\* the inputs in breadth.
MaxPolls == 46
ShortPolls == 1
\* Most push calls made on one facade after its construction.
MaxPushes == 1
\* Resolution of the model's clock.
TicksPerSecond == 10

\* ------------------------------------------------------- program constants
\* client.py:457  range(0, len(contents), 100)
ChunkSize == 100
\* client.py:21   DEFAULT_TIMEOUT = 30 * 60
DEFAULT_TIMEOUT == 1800
\* client.py:766  seconds_to_sleep = 1.0
BaseInterval == 1
\* client.py:782  i % 3 == 0
DoublePeriod == 3
\* client.py:782  seconds_to_sleep < 64
IntervalCap == 64
\* client.py:96   400 <= r.status_code < 600
ErrorCodeMin == 400
ErrorCodeEnd == 600

Min(a, b) == IF a <= b THEN a ELSE b

\* ------------------------------------------------------------ Python values
\* None where a string is expected (task_id, alpha, beta).
None == "None"

\* Record identifiers: chosen by the caller, generated by _generate_id
\* (uuid4: every call yields a new one), or a position from enumerate().
NoId == [src |-> "none", n |-> 0]
CallerId(n) == [src |-> "caller", n |-> n]
\* Mutant of Uuid: _generate_id returns the same id at every call.
UuidRepeats(n) == [src |-> "uuid", n |-> 0]
Uuid(n) == [src |-> "uuid", n |-> n]
EnumId(n) == [src |-> "enum", n |-> n]

\* The three input shapes of one element: a plain string, an (_id, text)
\* tuple, an {'_id': _id, 'text': text} dict.
StrItem(t) == [kind |-> "str", id |-> NoId, text |-> t]
TupleItem(id, t) == [kind |-> "tuple", id |-> id, text |-> t]
DictItem(id, t) == [kind |-> "dict", id |-> id, text |-> t]

\* A contents argument: None or a list of items.
NoneContents == [none |-> TRUE, items |-> <<>>]
List(items) == [none |-> FALSE, items |-> items]

\* Python truth of a contents argument: None and [] are falsy.
Truthy(contents) == ~contents.none /\ Len(contents.items) > 0

\* A timeout argument: left out, None, or a number of ticks.
AbsentTimeout == [kind |-> "absent", v |-> 0]
NoneTimeout == [kind |-> "none", v |-> 0]
NumTimeout(v) == [kind |-> "num", v |-> v]

\* ------------------------------------------------------------------ inputs
Shapes == {"str", "tuple", "dict"}
Lens == {1, ChunkSize, MaxLen}
Families == {"cluster", "comments"}
Modes == {"oneshot", "task"}
TaskIdArgs == {None, "t1"}
AlphaArgs == {None, "0.5"}
BetaArgs == {None, "0.3"}

\* Element k of an input carries text first + k - 1, and for the shapes with
\* ids the caller's id of the same number.
MkItem(shape, n) ==
    IF shape = "str" THEN StrItem(n)
    ELSE IF shape = "tuple" THEN TupleItem(CallerId(n), n)
    ELSE DictItem(CallerId(n), n)

MkItems(shape, first, len) == [k \in 1..len |-> MkItem(shape, first + k - 1)]

ContentsArgs ==
    {NoneContents, List(<<>>)}
        \cup {List(MkItems(sh, 1, len)) : sh \in Shapes, len \in Lens}

\* Inputs of a later push on the same facade: their ids continue after MaxLen.
MoreContentsArgs ==
    {List(<<>>)}
        \cup {List(MkItems("str", MaxLen + 1, 2))}
        \cup {List(MkItems("tuple", MaxLen + 1, ChunkSize + 1))}

TimeoutArgs ==
    {AbsentTimeout, NoneTimeout}
        \cup {NumTimeout(v) : v \in {0, 1, TicksPerSecond \div 2, TicksPerSecond,
                                     2 * TicksPerSecond + 5, 7 * TicksPerSecond}}

\* The timeouts of the runs that explore the inputs: the default, and one
\* that runs out at the first poll.
ShortTimeoutArgs == {AbsentTimeout, NumTimeout(1)}

\* What the remote service may answer.
Codes == {200, 500}

\* The status codes of the runs that vary the answers: the codes next to the
\* two ends of the error range of _api_request.
MoreCodes == {200, 399, 400, 599}
Results == {<<>>, <<"r1", "r2">>}

Str_done == <<"d", "o", "n", "e">>
Str_error == <<"e", "r", "r", "o", "r">>
Str_not_found == <<"n", "o", "t", " ", "f", "o", "u", "n", "d">>
Str_running == <<"r", "u", "n", "n", "i", "n", "g">>

StatusPayloads ==
    { Str_done, <<"D", "O", "N", "E">>,
      Str_error, <<"E", "r", "r", "o", "r">>,
      Str_not_found, <<"N", "o", "t", " ", "F", "o", "u", "n", "d">>,
      Str_running, <<"R", "E", "C", "E", "I", "V", "E", "D">>,
      <<"q", "u", "e", "u", "e", "d">> }

\* The answers to a status request: a status payload, or an error response.
StatusResponses(codes) ==
    {[code |-> c, body |-> b] : c \in {c \in codes : c < 400}, b \in StatusPayloads}
        \cup {[code |-> c, body |-> <<>>] : c \in {c \in codes : c >= 400}}

\* ------------------------------------------------------------ pure helpers
UpperChars == <<"A", "B", "C", "D", "E", "F", "G", "H", "I", "J", "K", "L", "M",
                "N", "O", "P", "Q", "R", "S", "T", "U", "V", "W", "X", "Y", "Z">>
LowerChars == <<"a", "b", "c", "d", "e", "f", "g", "h", "i", "j", "k", "l", "m",
                "n", "o", "p", "q", "r", "s", "t", "u", "v", "w", "x", "y", "z">>

\* str.lower() on one character.
LowerChar(c) ==
    IF \E k \in DOMAIN UpperChars : UpperChars[k] = c
    THEN LowerChars[CHOOSE k \in DOMAIN UpperChars : UpperChars[k] = c]
    ELSE c

\* Mutant of Lower: the status is compared as received.
LowerMissing(s) == s

\* str.lower()
Lower(s) == [k \in DOMAIN s |-> LowerChar(s[k])]

\* Mutant of PrepareContents: every element gets a newly generated _id,
\* whatever its shape.
PrepareContentsRegenerates(contents, uuid0) ==
    IF ~Truthy(contents) THEN <<>>
    ELSE [k \in DOMAIN contents.items |->
            DictItem(Uuid(uuid0 + k + 1), contents.items[k].text)]

\* _ClusterTask._prepare_contents; uuid0 is the number of ids _generate_id
\* has handed out so far.
PrepareContents(contents, uuid0) ==
    IF ~Truthy(contents) THEN <<>>
    ELSE IF contents.items[1].kind = "str"
    THEN [k \in DOMAIN contents.items |->
            DictItem(Uuid(uuid0 + k), contents.items[k].text)]
    ELSE IF contents.items[1].kind = "tuple"
    THEN [k \in DOMAIN contents.items |->
            DictItem(contents.items[k].id, contents.items[k].text)]
    ELSE contents.items

\* The number of _generate_id calls _prepare_contents makes.
GeneratedBy(contents) ==
    IF Truthy(contents) /\ contents.items[1].kind = "str"
    THEN Len(contents.items) ELSE 0

\* Mutant of WrapperContents: the positions are counted from 1.
WrapperContentsOneBased(contents) ==
    IF contents.items[1].kind = "str"
    THEN List([k \in DOMAIN contents.items |->
                 DictItem(EnumId(k), contents.items[k].text)])
    ELSE contents

\* BosonNLP.cluster / BosonNLP.comments, lines 539-540 / 668-669: plain
\* strings get their position as _id.
WrapperContents(contents) ==
    IF contents.items[1].kind = "str"
    THEN List([k \in DOMAIN contents.items |->
                 DictItem(EnumId(k - 1), contents.items[k].text)])
    ELSE contents

\* Mutant of Chunk: the slice is one record short, contents[i:i + 99].
ChunkShort(contents, i) == SubSeq(contents, i + 1, Min(i + ChunkSize - 1, Len(contents)))

\* contents[i:i + 100]
Chunk(contents, i) == SubSeq(contents, i + 1, Min(i + ChunkSize, Len(contents)))

\* Mutant of ApiFails: only the server errors (5xx) raise.
ApiFailsServerOnly(code) == 500 <= code /\ code < ErrorCodeEnd

\* _api_request raises HTTPError for a response code in [400, 600).
ApiFails(code) == ErrorCodeMin <= code /\ code < ErrorCodeEnd

\* _api_request, line 86: the size in bytes from which on a body is
\* compressed, exclusive.
GzipThreshold == 10 * 1024

\* The sizes in bytes of the JSON encoding of a chunk: at the threshold and
\* just above it.
BodyLens == {GzipThreshold, GzipThreshold + 1}

\* Mutant of Gzipped: a body of exactly 10 KiB is compressed too.
GzippedFromThreshold(bytes, comp) == bytes >= GzipThreshold /\ comp

\* _api_request, lines 86-88: whether the body is sent gzip-compressed, with
\* the Content-Encoding: gzip header.
Gzipped(bytes, comp) == bytes > GzipThreshold /\ comp

\* Mutant of Ok: r.ok is false whatever the response.
OkNever(code) == FALSE

\* r.ok of a response _api_request returned.
Ok(code) == ~(400 <= code /\ code < 600)

\* Mutant of AnalysisParams: an argument left at None is sent as the
\* documented default.
AnalysisParamsDefaults(a, b) ==
    {<<"alpha", IF a # None THEN a ELSE "0.8">>, <<"beta", IF b # None THEN b ELSE "0.45">>}

\* params of _cluster_analysis / _comments_analysis.
AnalysisParams(a, b) ==
    (IF a # None THEN {<<"alpha", a>>} ELSE {})
        \cup (IF b # None THEN {<<"beta", b>>} ELSE {})

\* Mutant of ClusterStatusError: a status outside the documented enumeration
\* is an error of the task.
ClusterStatusErrorStrict(status) ==
    IF status = Str_not_found THEN "TaskNotFoundError"
    ELSE IF status \notin {Str_done, Str_running, <<"r", "e", "c", "e", "i", "v", "e", "d">>}
    THEN "TaskError"
    ELSE "none"

\* _cluster_status: the exception the lower-cased status raises, if any.
ClusterStatusError(status) ==
    IF status = Str_not_found THEN "TaskNotFoundError"
    ELSE IF status = Str_error THEN "TaskError"
    ELSE "none"

\* Mutant of CommentsStatusError: the comments endpoints let 'error' through
\* as a status like any other.
CommentsStatusErrorLenient(status) ==
    IF status = Str_not_found THEN "TaskNotFoundError" ELSE "none"

\* _comments_status: the same mapping, for the comments endpoints.
CommentsStatusError(status) ==
    IF status = Str_not_found THEN "TaskNotFoundError"
    ELSE IF status = Str_error THEN "TaskError"
    ELSE "none"

\* The _status a facade is bound to (ClusterTask.__init__ / CommentsTask.__init__).
StatusError(fam, status) ==
    IF fam = "cluster" THEN ClusterStatusError(status) ELSE CommentsStatusError(status)

\* Mutant of ResolveTimeout: the wrappers, too, wait without a timeout when
\* none is passed.
ResolveTimeoutNoDefault(md, t) == IF t.kind # "absent" THEN t ELSE NoneTimeout

\* The timeout wait_until_complete runs with: the wrappers default to
\* DEFAULT_TIMEOUT, wait_until_complete itself to None.
ResolveTimeout(md, t) ==
    IF t.kind # "absent" THEN t
    ELSE IF md = "oneshot" THEN NumTimeout(DEFAULT_TIMEOUT * TicksPerSecond)
    ELSE NoneTimeout

\* Mutant of InitialInterval: the first interval is not clamped to the timeout.
InitialIntervalUnclamped(t) == BaseInterval * TicksPerSecond

\* wait_until_complete, lines 766-768.
InitialInterval(t) ==
    IF t.kind # "none"
    THEN Min(BaseInterval * TicksPerSecond, t.v)
    ELSE BaseInterval * TicksPerSecond

\* Mutant of TimedOut: the comparison is made whatever the timeout is, None
\* counting as zero seconds.
TimedOutWithoutTimeout(t, el) == el >= t.v

\* wait_until_complete, line 778: if timeout and elapsed >= timeout
TimedOut(t, el) == t.kind # "none" /\ t.v # 0 /\ el >= t.v

\* Mutant of NextInterval: the interval goes on doubling past 64 seconds.
NextIntervalUncapped(i, s) == IF i % DoublePeriod = 0 THEN s + s ELSE s

\* wait_until_complete, lines 782-783.
NextInterval(i, s) ==
    IF i % DoublePeriod = 0 /\ s < IntervalCap * TicksPerSecond THEN s + s ELSE s

\* Exceptions and what a call ends with.
NoExc == [type |-> "none", op |-> "none", code |-> 0]
Exc(type, op, code) == [type |-> type, op |-> op, code |-> code]
NoOutcome == [kind |-> "none", exc |-> NoExc, value |-> <<>>]
Returned(v) == [kind |-> "return", exc |-> NoExc, value |-> v]
Raised(e) == [kind |-> "raise", exc |-> e, value |-> <<>>]

\* Mutant of CleanupDue: the finally clause never calls clear().
CleanupNever(cl) == FALSE

\* Mutant of CleanupDue: the finally clause calls clear() whether or not
\* the facade was assigned.
CleanupAlways(cl) == TRUE

\* The finally clause of the wrappers, line 549: if cluster is not None
CleanupDue(cl) == cl

\* What leaves a try/finally whose finally clause ended with clear_exc
\* (NoExc when it raised nothing): an exception raised in the finally clause
\* replaces whatever the try block ended with.
FinallyOutcome(pend, clear_exc) ==
    IF clear_exc.type # "none" THEN Raised(clear_exc) ELSE pend

\* ------------------------------------------------------------------- state
VARIABLES
    family,          \* which wrapper / facade class is used: cluster or comments
    mode,            \* "oneshot": cluster()/comments(); "task": the facade, driven by the caller
    contents,        \* the contents argument
    task_id_arg,     \* the task_id argument
    poll_limit,      \* how many status polls of this run are followed
    run_codes,       \* the status codes the remote answers with in this run
    compress,        \* self.compress, the compress option of BosonNLP
    pc,              \* where the call is
    cluster,         \* the wrapper's local: TRUE once the facade is assigned (is not None)
    task_id,         \* self.task_id
    task_contents,   \* self._contents, the local mirror
    n_uuid,          \* ids handed out by _generate_id for records
    n_pushes,        \* push calls made by the caller after construction
    push_state,      \* the latest push call: "none", "running", "returned", "raised"
    push_input,      \* push: the contents argument of the latest push call
    push_contents,   \* push: contents after _prepare_contents (line 734)
    prepared,        \* _cluster_push: contents after _prepare_contents (line 454)
    push_i,          \* _cluster_push: the loop variable i
    chunks,          \* the chunks the latest push call has sent, in order
    mirror_before,   \* self._contents when the latest push call began
    calls_before,    \* the number of requests sent when the latest push call began
    pushes,          \* the push calls made so far: the argument of each and the ids generated before it
    acked,           \* the records of the uploads the remote has answered without an error, in order
    alpha,           \* analysis: the alpha argument of the latest call
    beta,            \* analysis: the beta argument of the latest call
    timeout_arg,     \* the timeout argument as the caller passed it, or left it out
    timeout,         \* wait_until_complete: timeout
    elapsed,         \* wait_until_complete: elapsed
    seconds_to_sleep,\* wait_until_complete: seconds_to_sleep
    wait_i,          \* wait_until_complete: i
    sleeps,          \* the intervals slept by the latest wait_until_complete, in order
    status,          \* what the latest status() call returned
    calls,           \* every request sent, in order
    request,         \* the latest request, in full
    response,        \* the latest response
    in_flight,       \* requests sent whose response has not come back yet
    pending,         \* what the try block ended with while the finally clause runs
    outcome          \* what the call ended with

vars == <<family, mode, contents, task_id_arg, poll_limit, run_codes, compress, pc, cluster, task_id, task_contents,
          n_uuid, n_pushes, push_state, push_input, push_contents, prepared, push_i,
          chunks, mirror_before, calls_before, pushes, acked, alpha, beta, timeout_arg, timeout, elapsed, seconds_to_sleep, wait_i, sleeps, status,
          calls, request, response, in_flight, pending, outcome>>

argVars == <<family, mode, task_id_arg, poll_limit, run_codes, compress>>
pushVars == <<n_uuid, push_state, push_input, push_contents, prepared, push_i, chunks,
              mirror_before, calls_before, pushes, acked>>
waitVars == <<timeout_arg, timeout, elapsed, seconds_to_sleep, wait_i, sleeps, status>>
netVars == <<calls, request, response, in_flight>>
analysisVars == <<alpha, beta>>

NoRequest == [op |-> "none", family |-> "none", task_id |-> None, data |-> <<>>, params |-> {},
              bytes |-> 0, gzip |-> FALSE]
NoResponse == [code |-> 0, body |-> <<>>]

\* The endpoint a request goes to: '/<family>/<op>/' + task_id
Endpoint(fam, op, tid) == [family |-> fam, op |-> op, task_id |-> tid]

\* _generate_id() for a task.
GeneratedTaskId == "uuid4"

\* Every input is explored with a short wait; for a one-record input the wait
\* is explored in depth, and so are the answers of the remote and the
\* arguments of analysis.
Init ==
    /\ family \in Families
    /\ mode \in Modes
    /\ \/ /\ contents \in ContentsArgs
          /\ task_id_arg \in TaskIdArgs
          /\ poll_limit = ShortPolls
          /\ run_codes = Codes
          /\ compress = TRUE
       \/ /\ contents = List(MkItems("str", 1, 1))
          /\ task_id_arg = None
          /\ poll_limit = MaxPolls
          /\ run_codes = Codes
          /\ compress = TRUE
       \/ /\ contents = List(MkItems("str", 1, 1))
          /\ task_id_arg = None
          /\ poll_limit = ShortPolls
          /\ run_codes = MoreCodes
          /\ compress \in BOOLEAN
    /\ pc = "start"
    /\ cluster = FALSE
    /\ task_id = None
    /\ task_contents = <<>>
    /\ n_uuid = 0
    /\ n_pushes = 0
    /\ push_state = "none"
    /\ push_input = NoneContents
    /\ push_contents = <<>>
    /\ prepared = <<>>
    /\ push_i = 0
    /\ chunks = <<>>
    /\ mirror_before = <<>>
    /\ calls_before = 0
    /\ pushes = <<>>
    /\ acked = <<>>
    /\ alpha = None
    /\ beta = None
    /\ timeout_arg = AbsentTimeout
    /\ timeout = NoneTimeout
    /\ elapsed = 0
    /\ seconds_to_sleep = 0
    /\ wait_i = 0
    /\ sleeps = <<>>
    /\ status = <<>>
    /\ calls = <<>>
    /\ request = NoRequest
    /\ response = NoResponse
    /\ in_flight = 0
    /\ pending = NoOutcome
    /\ outcome = NoOutcome

\* One request without a body (GET) and its response: _api_request returns (or raises) when
\* session.request has come back with the response.
Send(op, data, params, code, body) ==
    /\ calls' = Append(calls, Endpoint(family, op, task_id))
    /\ request' = [op |-> op, family |-> family, task_id |-> task_id,
                   data |-> data, params |-> params, bytes |-> 0, gzip |-> FALSE]
    /\ response' = [code |-> code, body |-> body]
    /\ in_flight' = in_flight

\* An exception leaves the current method. In the wrapper it is raised inside
\* the try block, so the finally clause runs next; a caller driving the facade
\* itself gets the exception.
Throw(e) ==
    IF mode = "oneshot"
    THEN pc' = "finally" /\ pending' = Raised(e) /\ outcome' = outcome
    ELSE pc' = "done" /\ pending' = pending /\ outcome' = Raised(e)

\* BosonNLP.cluster / BosonNLP.comments up to the try statement.
WrapperEnter ==
    /\ pc = "start"
    /\ mode = "oneshot"
    /\ IF ~Truthy(contents)
       THEN /\ pc' = "done"
            /\ outcome' = Returned(<<>>)
            /\ contents' = contents
       ELSE /\ pc' = "construct"
            /\ outcome' = outcome
            /\ contents' = WrapperContents(contents)
    /\ cluster' = FALSE
    /\ UNCHANGED <<argVars, analysisVars, task_id, task_contents, n_pushes, pushVars, waitVars,
                   netVars, pending>>

\* Mutant of PushIsEmpty: the upload goes ahead whatever the input.
PushNeverEmpty(c) == FALSE

\* _cluster_push / _comments_push, line 455 / 577: if not contents
PushIsEmpty(c) == Len(c) = 0

\* _ClusterTask.push up to the first upload: both _prepare_contents calls and
\* the empty check of _cluster_push / _comments_push.
BeginPush(input) ==
    LET c1 == PrepareContents(input, n_uuid)
        n1 == n_uuid + GeneratedBy(input)
        c2 == PrepareContents(List(c1), n1)
        n2 == n1 + GeneratedBy(List(c1))
    IN  /\ push_input' = input
        /\ push_contents' = c1
        /\ prepared' = c2
        /\ n_uuid' = n2
        /\ push_i' = 0
        /\ chunks' = <<>>
        /\ mirror_before' = task_contents
        /\ calls_before' = Len(calls)
        /\ pushes' = Append(pushes, [input |-> input, uuid0 |-> n_uuid])
        /\ acked' = acked
        /\ IF PushIsEmpty(c2)
           THEN \* return False: nothing is sent, nothing is appended
                /\ push_state' = "returned"
                /\ pc' = "analysis"
                /\ cluster' = TRUE
           ELSE /\ push_state' = "running"
                /\ pc' = "push_chunk"
                /\ cluster' = cluster

\* ClusterTask.__init__ / CommentsTask.__init__, reached through
\* create_cluster_task / create_comments_task.
Construct ==
    /\ \/ pc = "construct"
       \/ pc = "start" /\ mode = "task"
    /\ task_id' = IF task_id_arg = None THEN GeneratedTaskId ELSE task_id_arg
    /\ task_contents' = <<>>
    /\ BeginPush(contents)
    /\ UNCHANGED <<argVars, analysisVars, contents, n_pushes, waitVars, netVars, pending, outcome>>

\* Mutant of PushRaises: the records of a failed push are appended to the
\* mirror all the same.
PushRaisesKeepsRecords(e) ==
    /\ Throw(e)
    /\ push_state' = "raised"
    /\ task_contents' = task_contents \o push_contents
    /\ UNCHANGED <<push_i, cluster>>

\* _cluster_push / _comments_push, line 459 / 581: an exception of
\* _api_request is not caught; it leaves the loop, _push and
\* _ClusterTask.push (line 735) before the extend of line 736, and the
\* constructor before the wrapper's local is assigned.
PushRaises(e) ==
    /\ Throw(e)
    /\ push_state' = "raised"
    /\ UNCHANGED <<push_i, task_contents, cluster>>

\* Mutant of Extend: the mirror is replaced by the records of the push.
ExtendReplaces(mirror, records) == records

\* _ClusterTask.push, line 736: self._contents.extend(contents)
Extend(mirror, records) == mirror \o records

\* Mutant of PushChunk: the loop sends the next chunk without waiting for
\* the response to the one before.
PushChunkNoWait ==
    /\ pc = "push_chunk"
    /\ calls' = Append(calls, Endpoint(family, "push", task_id))
    /\ \E bytes \in BodyLens :
           request' = [op |-> "push", family |-> family, task_id |-> task_id,
                       data |-> Chunk(prepared, push_i), params |-> {},
                       bytes |-> bytes, gzip |-> Gzipped(bytes, compress)]
    /\ in_flight' = in_flight + 1
    /\ chunks' = Append(chunks, Chunk(prepared, push_i))
    /\ IF push_i + ChunkSize < Len(prepared)
       THEN push_i' = push_i + ChunkSize /\ pc' = pc
       ELSE push_i' = push_i /\ pc' = "push_response"
    /\ UNCHANGED <<argVars, analysisVars, contents, cluster, task_id, task_contents,
                   n_pushes, n_uuid, push_state, push_input, push_contents, prepared,
                   mirror_before, calls_before, pushes, acked, waitVars, response,
                   pending, outcome>>

\* One round of the loop of _cluster_push / _comments_push, up to the moment
\* session.request has sent the chunk (line 459 / 581): the call blocks until
\* the response is there.
PushChunk ==
    /\ pc = "push_chunk"
    /\ calls' = Append(calls, Endpoint(family, "push", task_id))
    /\ \E bytes \in BodyLens :
           request' = [op |-> "push", family |-> family, task_id |-> task_id,
                       data |-> Chunk(prepared, push_i), params |-> {},
                       bytes |-> bytes, gzip |-> Gzipped(bytes, compress)]
    /\ in_flight' = in_flight + 1
    /\ chunks' = Append(chunks, Chunk(prepared, push_i))
    /\ pc' = "push_response"
    /\ UNCHANGED <<argVars, analysisVars, contents, cluster, task_id, task_contents,
                   n_pushes, n_uuid, push_state, push_input, push_contents, prepared,
                   push_i, mirror_before, calls_before, pushes, acked, waitVars,
                   response, pending, outcome>>

\* The rest of the round: the response to the chunk; after the last round,
\* the return of r.ok and the extend of _ClusterTask.push.
PushResponse ==
    /\ pc = "push_response"
    /\ \E code \in run_codes :
        LET next == push_i + ChunkSize
        IN  /\ response' = [code |-> code, body |-> <<>>]
            /\ in_flight' = in_flight - 1
            /\ acked' = IF ApiFails(code) THEN acked ELSE acked \o request.data
            /\ IF ApiFails(code)
               THEN PushRaises(Exc("HTTPError", "push", code))
               ELSE /\ push_i' = next
                    /\ IF next < Len(prepared)
                       THEN /\ pc' = "push_chunk"
                            /\ UNCHANGED <<push_state, task_contents, cluster>>
                       ELSE /\ pc' = "analysis"
                            /\ push_state' = "returned"
                            /\ task_contents' =
                                   IF Ok(code) THEN Extend(task_contents, push_contents)
                                   ELSE task_contents
                            /\ cluster' = TRUE
                    /\ UNCHANGED <<pending, outcome>>
    /\ UNCHANGED <<argVars, analysisVars, contents, task_id, n_pushes, n_uuid, push_input,
                   push_contents, prepared, chunks, mirror_before, calls_before, pushes,
                   waitVars, calls, request>>

\* A further push call by the caller of a facade (followed in the runs that
\* explore the inputs).
TaskPush ==
    /\ pc = "analysis"
    /\ mode = "task"
    /\ poll_limit = ShortPolls
    /\ n_pushes < MaxPushes
    /\ n_pushes' = n_pushes + 1
    /\ \E input \in MoreContentsArgs : BeginPush(input)
    /\ UNCHANGED <<argVars, analysisVars, contents, task_id, task_contents, waitVars, netVars,
                   pending, outcome>>

\* _ClusterTask.analysis through _cluster_analysis / _comments_analysis (the
\* arguments vary in the runs that vary the answers, and are left out in the
\* others).
Analysis ==
    /\ pc = "analysis"
    /\ \E a \in AlphaArgs, b \in BetaArgs, code \in run_codes :
        /\ run_codes = Codes => a = None /\ b = None
        /\ alpha' = a
        /\ beta' = b
        /\ Send("analysis", <<>>, AnalysisParams(a, b), code, <<>>)
        /\ IF ApiFails(code)
           THEN Throw(Exc("HTTPError", "analysis", code))
           ELSE pc' = "wait_begin" /\ UNCHANGED <<pending, outcome>>
    /\ UNCHANGED <<argVars, contents, cluster, task_id, task_contents, n_pushes,
                   pushVars, waitVars>>

\* wait_until_complete up to the loop (the timeouts vary in the runs of the
\* one-record input).
WaitBegin ==
    /\ pc = "wait_begin"
    /\ \E t \in (IF poll_limit = ShortPolls THEN ShortTimeoutArgs ELSE TimeoutArgs) :
        /\ timeout_arg' = t
        /\ timeout' = ResolveTimeout(mode, t)
        /\ seconds_to_sleep' = InitialInterval(ResolveTimeout(mode, t))
    /\ elapsed' = 0
    /\ wait_i' = 0
    /\ sleeps' = <<>>
    /\ status' = <<>>
    /\ pc' = "wait_loop"
    /\ UNCHANGED <<argVars, analysisVars, contents, cluster, task_id, task_contents, n_pushes,
                   pushVars, netVars, pending, outcome>>

\* Mutant of IsDone: whatever status() returned ends the wait.
IsDoneAlways(st) == TRUE

\* wait_until_complete, line 774: if status == "done"
IsDone(st) == st = Str_done

\* Mutant of PollVerdict: the timeout is checked before the status.
PollVerdictTimeoutFirst(st, t, el) ==
    IF TimedOut(t, el) THEN "raise"
    ELSE IF IsDone(st) THEN "return"
    ELSE "continue"

\* wait_until_complete, lines 774-779: what the loop body does with the
\* status of a poll; el is the time slept with the sleep before this poll.
PollVerdict(st, t, el) ==
    IF IsDone(st) THEN "return"
    ELSE IF TimedOut(t, el) THEN "raise"
    ELSE "continue"

\* Mutant of PollRaises: the loop swallows the exception and polls again.
PollRaisesSwallowed(e) ==
    UNCHANGED <<pc, pending, outcome, status, elapsed, wait_i, seconds_to_sleep>>

\* wait_until_complete, line 773: an exception of status() is not caught, it
\* leaves the loop and the method.
PollRaises(e) ==
    /\ Throw(e)
    /\ UNCHANGED <<status, elapsed, wait_i, seconds_to_sleep>>

\* One round of the loop of wait_until_complete: the sleep, the status() call
\* through _cluster_status / _comments_status, and the rest of the loop body.
Poll ==
    /\ pc = "wait_loop"
    /\ Len(sleeps) < poll_limit
    /\ sleeps' = Append(sleeps, seconds_to_sleep)
    /\ \E r \in StatusResponses(run_codes) :
      LET code == r.code
          body == r.body
      IN
        /\ Send("status", <<>>, {}, code, body)
        /\ IF ApiFails(code)
           THEN PollRaises(Exc("HTTPError", "status", code))
           ELSE IF StatusError(family, Lower(body)) # "none"
           THEN PollRaises(Exc(StatusError(family, Lower(body)), "status", code))
           ELSE /\ status' = Lower(body)
                /\ IF PollVerdict(Lower(body), timeout, elapsed + seconds_to_sleep)
                          = "return"
                   THEN /\ pc' = "result"
                        /\ UNCHANGED <<elapsed, wait_i, seconds_to_sleep, pending, outcome>>
                   ELSE /\ elapsed' = elapsed + seconds_to_sleep
                        /\ IF PollVerdict(Lower(body), timeout, elapsed + seconds_to_sleep)
                                  = "raise"
                           THEN /\ Throw(Exc("TimeoutError", "wait", 0))
                                /\ UNCHANGED <<wait_i, seconds_to_sleep>>
                           ELSE /\ wait_i' = wait_i + 1
                                /\ seconds_to_sleep' =
                                       NextInterval(wait_i + 1, seconds_to_sleep)
                                /\ UNCHANGED <<pc, pending, outcome>>
    /\ UNCHANGED <<argVars, analysisVars, contents, cluster, task_id, task_contents, n_pushes,
                   pushVars, timeout_arg, timeout>>

\* _ClusterTask.result through _cluster_result / _comments_result. The
\* wrapper returns the value, which the finally clause holds back until
\* clear() has run; a caller of the facade calls clear() next.
Result ==
    /\ pc = "result"
    /\ \E code \in run_codes, v \in Results :
        IF ApiFails(code)
        THEN /\ Send("result", <<>>, {}, code, <<>>)
             /\ Throw(Exc("HTTPError", "result", code))
        ELSE /\ Send("result", <<>>, {}, code, v)
             /\ pc' = "finally"
             /\ pending' = Returned(v)
             /\ outcome' = outcome
    /\ UNCHANGED <<argVars, analysisVars, contents, cluster, task_id, task_contents, n_pushes,
                   pushVars, waitVars>>

\* The finally clause of the wrapper with a facade at hand (and the clear()
\* call of a facade's caller): _ClusterTask.clear through _cluster_clear /
\* _comments_clear.
Clear ==
    /\ pc = "finally"
    /\ CleanupDue(cluster)
    /\ \E code \in run_codes :
        /\ Send("clear", <<>>, {}, code, <<>>)
        /\ outcome' = FinallyOutcome(pending,
                         IF ApiFails(code) THEN Exc("HTTPError", "clear", code) ELSE NoExc)
    /\ pc' = "done"
    /\ UNCHANGED <<argVars, analysisVars, contents, cluster, task_id, task_contents, n_pushes,
                   pushVars, waitVars, pending>>

\* The finally clause of the wrapper when the facade was never assigned.
FinallySkip ==
    /\ pc = "finally"
    /\ ~CleanupDue(cluster)
    /\ outcome' = pending
    /\ pc' = "done"
    /\ UNCHANGED <<argVars, analysisVars, contents, cluster, task_id, task_contents, n_pushes,
                   pushVars, waitVars, netVars, pending>>

Next ==
    \/ WrapperEnter
    \/ Construct
    \/ PushChunk
    \/ PushResponse
    \/ TaskPush
    \/ Analysis
    \/ WaitBegin
    \/ Poll
    \/ Result
    \/ Clear
    \/ FinallySkip

Spec == Init /\ [][Next]_vars

\* ------------------------------------------------------------------ claims
\* Helpers of the claims.
CountOp(op) == Cardinality({k \in DOMAIN calls : calls[k].op = op})
LastOp == IF Len(calls) = 0 THEN "none" ELSE calls[Len(calls)].op
CeilDiv(a, b) == (a + b - 1) \div b

RECURSIVE Flatten(_)
Flatten(ss) == IF Len(ss) = 0 THEN <<>> ELSE Head(ss) \o Flatten(Tail(ss))

RECURSIVE SumSeq(_)
SumSeq(ss) == IF Len(ss) = 0 THEN 0 ELSE Head(ss) + SumSeq(Tail(ss))

\* What wait_until_complete (or any other method of the facade) raised to
\* its caller: the wrapper holds it in the try block, a caller of the facade
\* receives it.
MethodError == IF mode = "oneshot" THEN pending.exc ELSE outcome.exc

\* C1: in the one-shot wrappers, once the facade has been constructed, clear()
\* is invoked exactly once on every exit path (return, failure of analysis,
\* failure or timeout of wait_until_complete, failure of result), and it is the
\* last remote call of the run; before the exit no clear() is sent.
C1_ClearExactlyOnce ==
    (mode = "oneshot" /\ cluster) =>
        IF pc = "done"
        THEN CountOp("clear") = 1 /\ LastOp = "clear"
        ELSE CountOp("clear") = 0

\* C1 witness: a wrapper run that ended by the timeout of wait_until_complete,
\* with clear() sent once.
C1_Witness ==
    /\ mode = "oneshot"
    /\ pc = "done"
    /\ cluster
    /\ pending.exc.type = "TimeoutError"
    /\ CountOp("clear") = 1

\* C2: in the one-shot wrapper, when a step raised and the clear() that
\* follows raised too, the failure that reaches the caller is the failure of
\* the step, not that of clear().
C2_PrimaryFailureReachesCaller ==
    (mode = "oneshot" /\ pc = "done" /\ pending.kind = "raise") => outcome = pending

\* C3: in the one-shot wrapper, if the push of the facade's construction
\* fails after at least one chunk was accepted, clear() is still sent for that
\* task before the failure reaches the caller.
C3_ClearAfterPartialPush ==
    (mode = "oneshot" /\ pc = "done" /\ push_state = "raised" /\ Len(chunks) > 1) =>
        \E k \in DOMAIN calls : calls[k] = Endpoint(family, "clear", task_id)

\* C4: a push of N > 0 records whose uploads all succeed sends exactly
\* ceil(N/100) chunks, each of 1 to 100 records, whose concatenation in the
\* order sent is the normalized input; the input's element k became record k;
\* and the mirror has grown by exactly these N records, in order.
C4_Chunking ==
    (push_state = "returned" /\ Truthy(push_input)) =>
        /\ Len(push_contents) = Len(push_input.items)
        /\ \A k \in DOMAIN push_contents :
               push_contents[k].text = push_input.items[k].text
        /\ Len(chunks) = CeilDiv(Len(push_contents), ChunkSize)
        /\ Cardinality({k \in DOMAIN calls : k > calls_before /\ calls[k].op = "push"})
               = CeilDiv(Len(push_contents), ChunkSize)
        /\ \A k \in (calls_before + 1)..(calls_before + Len(chunks)) :
               calls[k] = Endpoint(family, "push", task_id)
        /\ \A c \in DOMAIN chunks : Len(chunks[c]) >= 1 /\ Len(chunks[c]) <= ChunkSize
        /\ Flatten(chunks) = push_contents
        /\ task_contents = mirror_before \o push_contents

\* C4 witness: a push of MaxLen records went through in three chunks.
C4_Witness ==
    /\ push_state = "returned"
    /\ Len(push_contents) = MaxLen
    /\ Len(chunks) = 3
    /\ Len(task_contents) = MaxLen

\* C5: for every timeout supplied to wait_until_complete, 0 included, when
\* status() keeps returning a status other than done the call raises
\* TimeoutError at the first poll after which the accumulated sleep has
\* reached the timeout, and no poll follows: the loop never goes on with the
\* accumulated sleep at or beyond the timeout, and a TimeoutError comes right
\* after the first poll that reached it.
C5_TimeoutAtFirstPollReachingIt ==
    /\ (pc = "wait_loop" /\ timeout.kind = "num" /\ Len(sleeps) > 0) =>
           SumSeq(sleeps) < timeout.v
    /\ MethodError.type = "TimeoutError" =>
           /\ SumSeq(sleeps) >= timeout.v
           /\ SumSeq(SubSeq(sleeps, 1, Len(sleeps) - 1)) < timeout.v
           /\ CountOp("status") = Len(sleeps)

RECURSIVE Pow2(_)
Pow2(n) == IF n = 0 THEN 1 ELSE 2 * Pow2(n - 1)

\* The k-th interval of the sequence 1,1,1,2,2,2,4,4,4,...,64,64,64,64,...
BackoffInterval(k) == Min(Pow2((k - 1) \div 3), 64) * TicksPerSecond

\* C6: while status() keeps returning a status other than done and no timeout
\* is reached, the intervals slept are 1,1,1,2,2,2,4,4,4,...,64,64,64,64,...
\* seconds, every status poll is preceded by one sleep, and the interval never
\* exceeds 64 seconds.
C6_BackoffSequence ==
    pc = "wait_loop" =>
        /\ \A k \in DOMAIN sleeps : sleeps[k] = BackoffInterval(k)
        /\ CountOp("status") = Len(sleeps)
        /\ seconds_to_sleep <= 64 * TicksPerSecond

\* C7: with 0 < timeout < 1 second the first sleep lasts exactly the timeout,
\* and when the first poll returns a status other than done the call raises
\* TimeoutError after exactly one status poll.
C7_SubSecondTimeout ==
    (timeout.kind = "num" /\ 0 < timeout.v /\ timeout.v < BaseInterval * TicksPerSecond) =>
        /\ pc = "wait_loop" => seconds_to_sleep = timeout.v /\ Len(sleeps) = 0
        /\ Len(sleeps) <= 1
        /\ Len(sleeps) = 1 => sleeps[1] = timeout.v
        /\ (Len(sleeps) = 1 /\ status # <<>> /\ status # Str_done) =>
               /\ MethodError = Exc("TimeoutError", "wait", 0)
               /\ CountOp("status") = 1

\* C7 witness: a timeout of one tick (a tenth of a second) ran out at the
\* first poll.
C7_Witness ==
    /\ timeout = NumTimeout(1)
    /\ sleeps = <<1>>
    /\ status = Str_running
    /\ MethodError.type = "TimeoutError"

\* The payloads that spell 'not found' and 'error' in some letter case, and
\* the lower-case spelling of the others.
NotFoundSpellings == {Str_not_found, <<"N", "o", "t", " ", "F", "o", "u", "n", "d">>}
ErrorSpellings == {Str_error, <<"E", "r", "r", "o", "r">>}
LowerSpelling(b) ==
    IF b = <<"D", "O", "N", "E">> THEN Str_done
    ELSE IF b = <<"R", "E", "C", "E", "I", "V", "E", "D">>
    THEN <<"r", "e", "c", "e", "i", "v", "e", "d">>
    ELSE b

\* C8: status() maps the remote status case-insensitively: 'not found' in any
\* letter case raises TaskNotFoundError, 'error' raises TaskError, every other
\* status is returned lower-cased and status() raises nothing; the same for the
\* cluster and the comments facade.
C8_StatusMapping ==
    (request.op = "status" /\ ~ApiFails(response.code)) =>
        IF response.body \in NotFoundSpellings
        THEN MethodError = Exc("TaskNotFoundError", "status", response.code)
        ELSE IF response.body \in ErrorSpellings
        THEN MethodError = Exc("TaskError", "status", response.code)
        ELSE /\ status = LowerSpelling(response.body)
             /\ MethodError.op # "status"

\* C8 witness: the comments facade got 'Not Found' and raised
\* TaskNotFoundError.
C8_Witness ==
    /\ family = "comments"
    /\ request.op = "status"
    /\ response.body = <<"N", "o", "t", " ", "F", "o", "u", "n", "d">>
    /\ MethodError.type = "TaskNotFoundError"

\* C9: a failure raised by a status poll inside wait_until_complete
\* (TaskNotFoundError, TaskError, HTTPError) reaches the caller of
\* wait_until_complete as it is and ends the loop: no sleep and no status call
\* follows the poll that raised, and the failure is not turned into a
\* TimeoutError, even when the timeout has run out by then.
C9_PollFailurePropagates ==
    /\ (request.op = "status"
            /\ (ApiFails(response.code)
                    \/ response.body \in NotFoundSpellings \cup ErrorSpellings)) =>
           /\ pc # "wait_loop"
           /\ MethodError.op = "status"
           /\ MethodError.type =
                  IF ApiFails(response.code) THEN "HTTPError"
                  ELSE IF response.body \in NotFoundSpellings THEN "TaskNotFoundError"
                  ELSE "TaskError"
    /\ MethodError.op = "status" =>
           /\ pc \in {"finally", "done"}
           /\ CountOp("status") = Len(sleeps)
           /\ \E k \in DOMAIN calls :
                  /\ calls[k].op = "status"
                  /\ \A j \in DOMAIN calls : j > k => calls[j].op = "clear"

\* C9 witness: the poll at which a one-tick timeout had run out raised
\* TaskError, and TaskError is what wait_until_complete raised.
C9_Witness ==
    /\ timeout = NumTimeout(1)
    /\ sleeps = <<1>>
    /\ request.op = "status"
    /\ response.body \in ErrorSpellings
    /\ MethodError.type = "TaskError"

\* C10: a push whose input normalizes to empty ([] or None), the construction
\* of a facade without contents, and the wrappers called with empty contents
\* send nothing; the wrapper returns an empty list and the mirror is left as
\* it was.
C10_EmptyInputNoCalls ==
    /\ (mode = "oneshot" /\ ~Truthy(contents)) =>
           /\ calls = <<>>
           /\ task_contents = <<>>
           /\ pc \in {"start", "done"}
           /\ pc = "done" => outcome = Returned(<<>>)
    /\ (push_state # "none" /\ ~Truthy(push_input)) =>
           /\ push_state = "returned"
           /\ chunks = <<>>
           /\ task_contents = mirror_before
           /\ \A k \in DOMAIN calls : k > calls_before => calls[k].op # "push"
           /\ pc = "analysis" => Len(calls) = calls_before
    /\ (mode = "task" /\ ~Truthy(contents) /\ n_pushes = 0 /\ pc = "analysis") =>
           calls = <<>> /\ task_contents = <<>>

\* C10 witness: a facade that holds records was pushed an empty input and
\* sent nothing more.
C10_Witness ==
    /\ n_pushes = 1
    /\ push_state = "returned"
    /\ ~Truthy(push_input)
    /\ Len(task_contents) = MaxLen
    /\ pc = "analysis"
    /\ Len(calls) = 3

\* C11: when a chunk upload fails during a push, no later chunk of that push
\* is sent (the failed upload is the last request, and the chunks sent are a
\* prefix of the chunks of the input), the HTTPError of that upload is what
\* the caller gets, no clear request is ever made, and the mirror is what it
\* was when the push began.
C11_FailedPushStops ==
    push_state = "raised" =>
        /\ request.op = "push" /\ ApiFails(response.code)
        /\ Len(calls) = calls_before + Len(chunks)
        /\ \A k \in DOMAIN calls : k > calls_before => calls[k].op = "push"
        /\ Len(chunks) >= 1
        /\ Len(chunks) <= CeilDiv(Len(prepared), ChunkSize)
        /\ \A c \in DOMAIN chunks : chunks[c] = Chunk(prepared, (c - 1) * ChunkSize)
        /\ push_i = (Len(chunks) - 1) * ChunkSize
        /\ MethodError = Exc("HTTPError", "push", response.code)
        /\ pc = "done" => outcome = Raised(Exc("HTTPError", "push", response.code))
        /\ CountOp("clear") = 0
        /\ task_contents = mirror_before

\* C11 witness: a later push of a facade that holds records failed at its
\* second chunk, after the first was accepted; the call has ended.
C11_Witness ==
    /\ push_state = "raised"
    /\ n_pushes = 1
    /\ Len(mirror_before) > 0
    /\ Len(chunks) = 2
    /\ pc = "done"

\* C12: with timeout None (or left out, which is None for
\* wait_until_complete) the call never raises TimeoutError, and after every
\* status poll that returned a status other than done, 'error' and
\* 'not found' the loop is still running, however many polls were made and
\* however long it has slept.
C12_NoTimeoutWithoutTimeout ==
    timeout.kind = "none" =>
        /\ MethodError.type # "TimeoutError"
        /\ outcome.exc.type # "TimeoutError"
        /\ (request.op = "status" /\ ~ApiFails(response.code)
                /\ response.body \notin NotFoundSpellings \cup ErrorSpellings
                /\ Lower(response.body) # Str_done) =>
               /\ pc = "wait_loop"
               /\ MethodError = NoExc
               /\ elapsed = SumSeq(sleeps)

\* C12 witness: without a timeout the loop is still polling after MaxPolls
\* polls, having slept longer than the wrappers' default timeout.
C12_Witness ==
    /\ timeout.kind = "none"
    /\ pc = "wait_loop"
    /\ Len(sleeps) = MaxPolls
    /\ CountOp("status") = MaxPolls
    /\ elapsed > DEFAULT_TIMEOUT * TicksPerSecond

\* The push calls that have returned: all but a last one that is still
\* running or that raised.
ReturnedPushes ==
    IF push_state \in {"running", "raised"}
    THEN SubSeq(pushes, 1, Len(pushes) - 1)
    ELSE pushes

\* C13: at every moment the mirror is the concatenation, in call order, of
\* the normalized inputs of the push calls that have returned (the
\* constructor's push first), and every entry of the mirror is an
\* {_id, text} record with an _id, whatever the shape of the input.
C13_MirrorIsConcatenation ==
    /\ task_contents =
           Flatten([k \in DOMAIN ReturnedPushes |->
                      PrepareContents(ReturnedPushes[k].input, ReturnedPushes[k].uuid0)])
    /\ Len(task_contents) =
           SumSeq([k \in DOMAIN ReturnedPushes |-> Len(ReturnedPushes[k].input.items)])
    /\ \A k \in DOMAIN task_contents :
           task_contents[k].kind = "dict" /\ task_contents[k].id # NoId

\* C13 witness: a facade constructed with MaxLen plain strings was pushed
\* ChunkSize + 1 tuples; the mirror holds both, the strings first.
C13_Witness ==
    /\ Len(pushes) = 2
    /\ push_state = "returned"
    /\ pushes[1].input = List(MkItems("str", 1, MaxLen))
    /\ pushes[2].input = List(MkItems("tuple", MaxLen + 1, ChunkSize + 1))
    /\ Len(task_contents) = MaxLen + ChunkSize + 1
    /\ task_contents[1] = DictItem(Uuid(1), 1)
    /\ task_contents[MaxLen + 1] = DictItem(CallerId(MaxLen + 1), MaxLen + 1)

\* The place of a request in the order of the wrapper's steps.
OpRank(op) ==
    IF op = "push" THEN 1
    ELSE IF op = "analysis" THEN 2
    ELSE IF op = "status" THEN 3
    ELSE IF op = "result" THEN 4
    ELSE 5

\* C14: a run of the one-shot wrapper on non-empty contents sends its
\* requests in the order push chunks, one analysis, status polls, one result,
\* one clear (a step follows the one before it, clear may come early); result
\* is requested only after a poll returned done; the value the wrapper
\* returns is the payload of the result request, after the whole sequence was
\* sent; and a run that does not return it ends with one exception.
C14_WrapperOrder ==
    (mode = "oneshot" /\ Truthy(contents)) =>
        /\ Len(calls) > 0 => calls[1].op = "push"
        /\ \A k \in 1..(Len(calls) - 1) :
               LET a == calls[k].op
                   b == calls[k + 1].op
               IN  /\ b # "clear" =>
                          \/ a = b /\ a \in {"push", "status"}
                          \/ OpRank(b) = OpRank(a) + 1
                   /\ a # "clear"
        /\ CountOp("analysis") <= 1 /\ CountOp("result") <= 1 /\ CountOp("clear") <= 1
        /\ CountOp("analysis") = 1 =>
               CountOp("push") = CeilDiv(Len(contents.items), ChunkSize)
        /\ CountOp("result") = 1 => status = Str_done /\ CountOp("status") >= 1
        /\ (request.op = "result" /\ ~ApiFails(response.code)) =>
               pending = Returned(response.body)
        /\ pc = "done" =>
               /\ outcome.kind \in {"return", "raise"}
               /\ outcome.kind = "raise" => outcome.exc.type # "none"
               /\ outcome.kind = "return" =>
                      /\ outcome = pending
                      /\ CountOp("analysis") = 1
                      /\ CountOp("result") = 1
                      /\ CountOp("clear") = 1
               /\ (pending.kind = "return" /\ outcome.kind # "return") =>
                      outcome.exc.op = "clear"

\* C14 witness: the wrapper returned the payload of the result request after
\* three push chunks, the analysis, a poll that returned done, the result
\* and the clear.
C14_Witness ==
    /\ mode = "oneshot"
    /\ pc = "done"
    /\ outcome = Returned(<<"r1", "r2">>)
    /\ Len(calls) = 7
    /\ CountOp("push") = 3
    /\ calls[7].op = "clear"

\* C15: _prepare_contents applied to records it has already normalized (the
\* second application, in _cluster_push / _comments_push) returns the same
\* records and generates no id; and for every input shape the output of the
\* first application has the length of the input, element k of the input
\* became record k, and the ids the caller gave are kept.
C15_PrepareContentsIdempotent ==
    push_state # "none" =>
        /\ prepared = push_contents
        /\ PrepareContents(List(prepared), n_uuid) = prepared
        /\ n_uuid = pushes[Len(pushes)].uuid0 + GeneratedBy(push_input)
        /\ Len(push_contents) = Len(push_input.items)
        /\ \A k \in DOMAIN push_contents :
               /\ push_contents[k].kind = "dict"
               /\ push_contents[k].text = push_input.items[k].text
               /\ push_input.items[k].kind # "str" =>
                      push_contents[k].id = push_input.items[k].id
               /\ push_input.items[k].kind = "str" =>
                      push_contents[k].id = Uuid(pushes[Len(pushes)].uuid0 + k)

\* C15 witness: MaxLen plain strings were normalized twice on their way to
\* the upload, and the uploaded records carry the ids of the first
\* normalization.
C15_Witness ==
    /\ push_state = "running"
    /\ push_input = List(MkItems("str", 1, MaxLen))
    /\ Len(prepared) = MaxLen
    /\ prepared[MaxLen] = DictItem(Uuid(MaxLen), MaxLen)
    /\ n_uuid = MaxLen

\* C16: an analysis() call sends exactly one analysis request, to the
\* facade's family and task_id; the request carries alpha if and only if the
\* caller passed an alpha other than None, and then the caller's value, the
\* same for beta, and nothing else; the defaults 0.8 and 0.45 are never sent.
C16_AnalysisParams ==
    /\ CountOp("analysis") <= 1
    /\ pc \in {"wait_begin", "wait_loop", "result"} => CountOp("analysis") = 1
    /\ request.op = "analysis" =>
           /\ calls[Len(calls)] = Endpoint(family, "analysis", task_id)
           /\ request.task_id = (IF task_id_arg = None THEN GeneratedTaskId ELSE task_id_arg)
           /\ (\E p \in request.params : p[1] = "alpha") <=> alpha # None
           /\ (\E p \in request.params : p[1] = "beta") <=> beta # None
           /\ \A p \in request.params :
                  \/ p[1] = "alpha" /\ p[2] = alpha
                  \/ p[1] = "beta" /\ p[2] = beta
           /\ request.data = <<>>
    /\ request.op # "analysis" => request.params = {}

\* C16 witness: analysis(beta=0.3) sent beta alone.
C16_Witness ==
    /\ request.op = "analysis"
    /\ alpha = None
    /\ beta = "0.3"
    /\ request.params = {<<"beta", "0.3">>}
    /\ pc = "wait_begin"

\* C17: in the one-shot wrapper, when the construction of the facade fails
\* at its very first chunk upload, that upload is the only request of the
\* run: no analysis, status, result or clear request follows, and the
\* HTTPError of the upload is what the caller gets.
C17_FirstChunkFailureEndsRun ==
    (mode = "oneshot" /\ push_state = "raised" /\ Len(chunks) = 1) =>
        /\ Len(calls) = 1
        /\ calls[1] = Endpoint(family, "push", task_id)
        /\ ~cluster
        /\ pc \in {"finally", "done"}
        /\ pending = Raised(Exc("HTTPError", "push", response.code))
        /\ pc = "done" => outcome = Raised(Exc("HTTPError", "push", response.code))

\* C17 witness: the wrapper, called with MaxLen records, ended with the
\* HTTPError of the first of its three uploads.
C17_Witness ==
    /\ mode = "oneshot"
    /\ pc = "done"
    /\ push_state = "raised"
    /\ Len(prepared) = MaxLen
    /\ Len(chunks) = 1
    /\ outcome.exc = Exc("HTTPError", "push", 500)

\* C18: a status poll that reports done ends wait_until_complete with a
\* return, whatever the time slept: the call goes on to its next step
\* without an exception, also when the sleep before that poll brought the
\* time slept to the timeout or beyond, and a wait that saw done never ends
\* in TimeoutError.
C18_DoneBeforeTimeout ==
    /\ (request.op = "status" /\ ~ApiFails(response.code)
            /\ Lower(response.body) = Str_done) =>
           /\ pc = "result"
           /\ status = Str_done
           /\ MethodError = NoExc
           /\ elapsed + sleeps[Len(sleeps)] = SumSeq(sleeps)
    /\ status = Str_done =>
           MethodError.type # "TimeoutError" /\ outcome.exc.type # "TimeoutError"

\* C18 witness: with a timeout of 2.5 seconds the third poll, made after 3
\* seconds of sleep, reported done and the wait returned.
C18_Witness ==
    /\ timeout = NumTimeout(2 * TicksPerSecond + 5)
    /\ Len(sleeps) = 3
    /\ SumSeq(sleeps) >= timeout.v
    /\ request.op = "status"
    /\ status = Str_done
    /\ pc = "result"

\* C19: within a push call the uploads go out one at a time and in input
\* order: chunk c of the push is records 100(c-1)+1 .. 100c of the normalized
\* input, at most one upload is without its response at any moment, and when
\* the loop is about to send a chunk every chunk sent before it has been
\* answered (and accepted).
C19_UploadsSequential ==
    /\ in_flight \in {0, 1}
    /\ in_flight = 1 <=> pc = "push_response"
    /\ \A c \in DOMAIN chunks : chunks[c] = Chunk(prepared, (c - 1) * ChunkSize)
    /\ pc = "push_chunk" =>
           /\ in_flight = 0
           /\ push_i = Len(chunks) * ChunkSize
           /\ Len(calls) = calls_before + Len(chunks)
    /\ pc = "push_response" =>
           /\ request.op = "push"
           /\ request.data = chunks[Len(chunks)]
           /\ push_i = (Len(chunks) - 1) * ChunkSize
           /\ Len(calls) = calls_before + Len(chunks)

\* C19 witness: the third upload of a push is out, the first two have been
\* answered.
C19_Witness ==
    /\ pc = "push_response"
    /\ in_flight = 1
    /\ Len(chunks) = 3
    /\ push_i = 2 * ChunkSize
    /\ request.data = Chunk(prepared, 2 * ChunkSize)

IdsOf(records) == {records[k].id : k \in DOMAIN records}

\* C21: what a push makes of its input goes by the shape of the input: plain
\* strings become records with generated ids that are pairwise distinct and
\* differ from every id the mirror holds; (id, text) pairs become records
\* with the caller's ids; {_id, text} records are taken as they are; and in
\* all three cases record k has the text of element k of the input.
C21_NormalizationByShape ==
    (push_state # "none" /\ Truthy(push_input)) =>
        /\ Len(push_contents) = Len(push_input.items)
        /\ \A k \in DOMAIN push_contents :
               push_contents[k].text = push_input.items[k].text
        /\ push_input.items[1].kind = "str" =>
               /\ \A k \in DOMAIN push_contents : push_contents[k].id.src = "uuid"
               /\ Cardinality(IdsOf(push_contents)) = Len(push_contents)
               /\ IdsOf(push_contents) \cap IdsOf(mirror_before) = {}
        /\ push_input.items[1].kind = "tuple" =>
               \A k \in DOMAIN push_contents :
                   push_contents[k] =
                       DictItem(push_input.items[k].id, push_input.items[k].text)
        /\ push_input.items[1].kind = "dict" => push_contents = push_input.items

\* C21 witness: a facade built from MaxLen plain strings was pushed two more
\* plain strings, which got the next two generated ids.
C21_Witness ==
    /\ n_pushes = 1
    /\ Len(mirror_before) = MaxLen
    /\ mirror_before[1].id.src = "uuid"
    /\ push_input = List(MkItems("str", MaxLen + 1, 2))
    /\ push_contents = <<DictItem(Uuid(MaxLen + 1), MaxLen + 1),
                          DictItem(Uuid(MaxLen + 2), MaxLen + 2)>>

\* C22: a response with a status code from 400 to 599 makes the operation
\* that sent the request raise HTTPError with that response's code; a
\* response with a code below 400 raises no HTTPError and its payload is what
\* the operation works with; and nothing is sent twice: one request per
\* analysis, result and clear call, one per status poll, one per chunk, and
\* after an HTTPError the only request that may follow is the wrapper's
\* clear.
C22_HTTPErrorNoRetry ==
    /\ (request.op # "none" /\ in_flight = 0) =>
           IF response.code >= 400 /\ response.code <= 599
           THEN IF request.op = "clear"
                THEN outcome = Raised(Exc("HTTPError", "clear", response.code))
                ELSE MethodError = Exc("HTTPError", request.op, response.code)
           ELSE /\ request.op # "clear" => MethodError.type # "HTTPError"
                /\ request.op = "clear" => outcome = pending
                /\ request.op = "result" => pending = Returned(response.body)
                /\ request.op = "status" =>
                       \/ status = Lower(response.body)
                       \/ MethodError.type \in {"TaskNotFoundError", "TaskError"}
    /\ CountOp("analysis") <= 1 /\ CountOp("result") <= 1 /\ CountOp("clear") <= 1
    /\ CountOp("status") = Len(sleeps)
    /\ Cardinality({k \in DOMAIN calls : k > calls_before /\ calls[k].op = "push"})
           = Len(chunks)
    /\ Len(chunks) <= CeilDiv(Len(prepared), ChunkSize)
    /\ MethodError.type = "HTTPError" =>
           \E k \in DOMAIN calls :
               /\ calls[k].op = MethodError.op
               /\ \A j \in DOMAIN calls : j > k => calls[j].op = "clear" /\ j = k + 1

\* C22 witness: the result request of a wrapper run was answered 400, the
\* first code of the error range; the wrapper sent one result request, then
\* clear, which was answered 399 and raised nothing, and ended with the
\* HTTPError of code 400.
C22_Witness ==
    /\ mode = "oneshot"
    /\ pc = "done"
    /\ pending = Raised(Exc("HTTPError", "result", 400))
    /\ outcome = pending
    /\ CountOp("result") = 1
    /\ LastOp = "clear"
    /\ response.code = 399

\* C23, as claimed: every upload whose JSON encoding is longer than 10240
\* bytes is sent gzip-compressed with the Content-Encoding: gzip header, and
\* every upload of 10240 bytes or fewer is sent uncompressed.
C23_EveryLargeBodyGzipped ==
    request.op = "push" => (request.gzip <=> request.bytes > 10240)

\* C23, amended: on a client with the compress option on (the default) an
\* upload is sent gzip-compressed if and only if its JSON encoding is longer
\* than 10240 bytes; on a client constructed with compress off no upload is
\* compressed, whatever its size; requests without a body are never
\* compressed.
C23_LargeBodyGzippedWhenEnabled ==
    /\ request.op = "push" =>
           /\ compress => (request.gzip <=> request.bytes > 10240)
           /\ ~compress => ~request.gzip
    /\ request.op # "push" => ~request.gzip /\ request.bytes = 0

\* C23 witness: a client with compress on has an upload of 10241 bytes out,
\* compressed.
C23_Witness ==
    /\ request.op = "push"
    /\ request.bytes = 10241
    /\ compress
    /\ request.gzip
    /\ in_flight = 1

\* The time slept after n polls of the sequence 1,1,1,2,2,2,...,64,64,...
RECURSIVE BackoffSlept(_)
BackoffSlept(n) == IF n = 0 THEN 0 ELSE BackoffSlept(n - 1) + BackoffInterval(n)

\* The polls the default timeout allows: the first poll by which 1800
\* seconds have been slept (21 polls bring the interval to 64 seconds with
\* 381 seconds slept, 23 more reach 1800 seconds: the 44th).
DefaultTimeoutPolls ==
    CHOOSE n \in 1..MaxPolls :
        /\ BackoffSlept(n) >= 1800 * TicksPerSecond
        /\ BackoffSlept(n - 1) < 1800 * TicksPerSecond

\* C24: a wrapper called without a timeout waits with a timeout of 1800
\* seconds, while wait_until_complete called without one waits with none; in
\* such a wrapper run the loop never goes on with 1800 seconds or more
\* slept, a run in which no poll reports done and none fails makes 44 polls
\* and no more, the 44th ends the wait with TimeoutError, and the run ends
\* with clear as its last request.
C24_WrapperDefaultTimeout ==
    /\ (timeout_arg = AbsentTimeout /\ (pc = "wait_loop" \/ Len(sleeps) > 0)) =>
           timeout = (IF mode = "oneshot" THEN NumTimeout(1800 * TicksPerSecond)
                      ELSE NoneTimeout)
    /\ (mode = "oneshot" /\ timeout_arg = AbsentTimeout
            /\ (pc = "wait_loop" \/ Len(sleeps) > 0)) =>
           /\ Len(sleeps) <= DefaultTimeoutPolls
           /\ CountOp("status") = Len(sleeps)
           /\ pc = "wait_loop" =>
                  SumSeq(sleeps) < 1800 * TicksPerSecond
                      /\ Len(sleeps) < DefaultTimeoutPolls
           /\ pending.exc.type = "TimeoutError" =>
                  /\ Len(sleeps) = DefaultTimeoutPolls
                  /\ SumSeq(sleeps) >= 1800 * TicksPerSecond
                  /\ pc \in {"finally", "done"}
                  /\ pc = "done" => LastOp = "clear" /\ CountOp("clear") = 1
           /\ (Len(sleeps) = DefaultTimeoutPolls /\ request.op = "status"
                   /\ ~ApiFails(response.code) /\ status = Lower(response.body)
                   /\ status # Str_done) =>
                  pending = Raised(Exc("TimeoutError", "wait", 0))

\* C24 witness: a wrapper called without a timeout ended after 44 polls
\* with the TimeoutError of the wait, clear sent last.
C24_Witness ==
    /\ mode = "oneshot"
    /\ timeout_arg = AbsentTimeout
    /\ pc = "done"
    /\ Len(sleeps) = 44
    /\ outcome = Raised(Exc("TimeoutError", "wait", 0))
    /\ LastOp = "clear"

\* C25: the mirror holds the records the remote has acknowledged and no
\* others: when no push is under way the mirror is, record for record and
\* id for id, the sequence of the records of the acknowledged uploads; while
\* a push is under way, and after one has failed, the mirror is the part of
\* that sequence acknowledged before the push began; and the ids generated
\* for a push of plain strings are generated once, one per element, the
\* uploaded records carrying them.
C25_MirrorIsAcknowledged ==
    /\ push_state \in {"none", "returned"} => task_contents = acked
    /\ push_state \in {"running", "raised"} =>
           /\ task_contents = mirror_before
           /\ Len(acked) >= Len(task_contents)
           /\ SubSeq(acked, 1, Len(task_contents)) = task_contents
           /\ acked = task_contents \o SubSeq(push_contents, 1, Len(acked) - Len(task_contents))
    /\ IdsOf(task_contents) \subseteq IdsOf(acked)
    /\ push_state # "none" =>
           /\ n_uuid = pushes[Len(pushes)].uuid0 + GeneratedBy(push_input)
           /\ \A c \in DOMAIN chunks : \A j \in DOMAIN chunks[c] :
                  chunks[c][j] = push_contents[(c - 1) * ChunkSize + j]

\* C25 witness: after MaxLen plain strings at construction and two more in
\* a later push the mirror is the MaxLen + 2 acknowledged records, with the
\* MaxLen + 2 ids generated.
C25_Witness ==
    /\ push_state = "returned"
    /\ Len(task_contents) = MaxLen + 2
    /\ task_contents = acked
    /\ task_contents[MaxLen + 2].id = Uuid(MaxLen + 2)
    /\ n_uuid = MaxLen + 2

\* C26: when wait_until_complete raises TimeoutError for a timeout T > 0,
\* the time it counts as elapsed is the sum E of the intervals slept and
\* nothing else, and T <= E < T + d for the last interval d, with d at most
\* 64 seconds; the first interval is the smaller of 1 second and T, the
\* later ones follow the backoff sequence whatever is left of T.
C26_OvershootBelowOneInterval ==
    (MethodError.type = "TimeoutError" /\ timeout.v > 0) =>
        /\ elapsed = SumSeq(sleeps)
        /\ timeout.v <= SumSeq(sleeps)
        /\ SumSeq(sleeps) < timeout.v + sleeps[Len(sleeps)]
        /\ sleeps[Len(sleeps)] <= 64 * TicksPerSecond
        /\ sleeps[1] = Min(1 * TicksPerSecond, timeout.v)
        /\ \A k \in 2..Len(sleeps) : sleeps[k] = BackoffInterval(k)

\* C26 witness: with a timeout of 2.5 seconds TimeoutError came after three
\* sleeps of one second: half a second beyond the timeout, less than the
\* last interval.
C26_Witness ==
    /\ MethodError.type = "TimeoutError"
    /\ timeout = NumTimeout(2 * TicksPerSecond + 5)
    /\ sleeps = <<TicksPerSecond, TicksPerSecond, TicksPerSecond>>
    /\ elapsed = 3 * TicksPerSecond

\* C27: a one-shot wrapper called with plain strings turns element k of its
\* input (k counted from 1) into the record with _id k - 1 and the text of
\* the element, and leaves pairs and records as they are; from then on no id
\* is generated in the run, the records uploaded are these records with
\* these ids (the caller's ids for pairs and records), and they are uploaded
\* in input order.
C27_WrapperPositionsAsIds ==
    [][ /\ (mode = "oneshot" /\ pc = "start" /\ pc' = "construct") =>
               IF contents.items[1].kind = "str"
               THEN /\ Len(contents'.items) = Len(contents.items)
                    /\ \A k \in DOMAIN contents.items :
                           contents'.items[k] =
                               DictItem(EnumId(k - 1), contents.items[k].text)
               ELSE contents' = contents
        /\ (mode' = "oneshot" /\ push_state' # "none") =>
               /\ n_uuid' = 0
               /\ contents' = contents
               /\ Len(prepared') = Len(contents'.items)
               /\ \A k \in DOMAIN prepared' :
                      prepared'[k] =
                          DictItem(contents'.items[k].id, contents'.items[k].text)
               /\ \A c \in DOMAIN chunks' :
                      chunks'[c] = Chunk(prepared', (c - 1) * ChunkSize)
               /\ \A k \in DOMAIN acked' : acked'[k] = prepared'[k]
      ]_vars

\* C27 witness: a wrapper called with MaxLen plain strings has had its
\* MaxLen records acknowledged, with the ids 0 to MaxLen - 1 and no id
\* generated.
C27_Witness ==
    /\ mode = "oneshot"
    /\ Len(acked) = MaxLen
    /\ \A k \in DOMAIN acked : acked[k] = DictItem(EnumId(k - 1), k)
    /\ n_uuid = 0

\* C28: a status poll answered without an HTTP error whose lower-cased status
\* is none of done, 'not found' and 'error' (running, received, or a string
\* outside the documented enumeration) is returned by status() as it is and
\* neither ends nor fails the wait by itself: the interval slept is added to
\* the time slept, the wait raises TimeoutError exactly when the timeout rule
\* says so, and otherwise it goes on polling with the poll counter advanced
\* and the next interval given by the backoff rule, whatever the status was.
C28_UnknownStatusIsIntermediate ==
    (request.op = "status" /\ ~ApiFails(response.code)
        /\ Lower(response.body) \notin {Str_done, Str_not_found, Str_error}) =>
        /\ status = Lower(response.body)
        /\ elapsed = SumSeq(sleeps)
        /\ IF TimedOut(timeout, SumSeq(sleeps))
           THEN /\ MethodError = Exc("TimeoutError", "wait", 0)
                /\ pc # "wait_loop"
           ELSE /\ pc = "wait_loop"
                /\ MethodError = NoExc
                /\ outcome = NoOutcome
                /\ wait_i = Len(sleeps)
                /\ seconds_to_sleep =
                       NextInterval(Len(sleeps), sleeps[Len(sleeps)])

\* C28 witness: the fourth poll of a cluster task was answered 'queued', a
\* status outside the documented enumeration, and the wait goes on with an
\* interval of two seconds.
C28_Witness ==
    /\ family = "cluster"
    /\ request.op = "status"
    /\ response.body = <<"q", "u", "e", "u", "e", "d">>
    /\ status = <<"q", "u", "e", "u", "e", "d">>
    /\ Len(sleeps) = 4
    /\ pc = "wait_loop"
    /\ seconds_to_sleep = 2 * TicksPerSecond

====
